---- MODULE Spec2Model ----
(***************************************************************************)
(* Group migration orchestrator (uc_migration_toolkit/managers/group.py).   *)
(*                                                                         *)
(* The state is the remote directory (workspace-visible groups and account *)
(* groups), the GroupManager's configuration and Registry, and the         *)
(* position of every worker of the thread pool that a phase fans out to.   *)
(* Every gateway call of a worker is one atomic step; workers interleave.  *)
(***************************************************************************)
EXTENDS Integers, Sequences, FiniteSets, Bags, TLC

VARIABLES
    ws,         \* groups visible at workspace scope (provider.ws.groups)
    acct,       \* groups of the account directory (list_account_level_groups)
    nextId,     \* identifier the directory gives to the next created group
    selected,   \* config.selected
    registry,   \* self._migration_groups_provider.groups
    op,         \* the public operation in progress, or "idle"
    cands,      \* the name list the running phase 1 was started with
    tasks,      \* the executables handed to ThreadedExecution, with their position
    idx,        \* delete_backup_groups: index of the next record of the loop
    faults,     \* gateway calls that have failed for a transient reason so far
    calls,      \* bag of the mutating gateway calls of the operation in progress
    hist,       \* the public operations finished so far, with their outcome
    wsAtStart,  \* ws when the last phase 1 was called
    wsAtEnd     \* ws when the last phase 1 returned successfully

vars == <<ws, acct, nextId, selected, registry, op, cands, tasks, idx,
          faults, calls, hist, wsAtStart, wsAtEnd>>

---------------------------------------------------------------------------
(* Bounds of the model *)

MaxCalls == 3
MaxFaults == 1

---------------------------------------------------------------------------
(* Program constants and configuration *)

SYSTEM_GROUPS == {"users", "admins", "account users"}

backup_group_prefix == "db-temp-"

op_schema == "urn:ietf:params:scim:api:messages:2.0:PatchOp"

(* None: the absent group *)
None == [id |-> 0, display_name |-> "", resource_type |-> "None",
         entitlements |-> {}, roles |-> {}]

Group(i, n, t, e, r) ==
    [id |-> i, display_name |-> n, resource_type |-> t, entitlements |-> e, roles |-> r]

MigrationGroupInfo(w, b, a) == [workspace |-> w, backup |-> b, account |-> a]

---------------------------------------------------------------------------
(* The Remote Directory Gateway *)

(* groups.list(filter="displayName eq <name>"): the matching groups *)
ListByName(dir, name) == {g \in dir : g.display_name = name}

(* groups.delete(id): raises when no group has the identifier *)
DeleteRaises(dir, id) == ~(\E g \in dir : g.id = id)

DeleteGroup(dir, id) == {g \in dir : g.id # id}

(* groups.create(request): a new workspace-local group carrying the payload *)
CreateGroup(dir, id, payload) ==
    dir \cup {Group(id, payload.displayName, "WorkspaceGroup",
                    payload.entitlements, payload.roles)}

(* reflect_account_group_to_workspace: the account group becomes visible at
   workspace scope under its own identifier and name *)
ReflectGroup(dir, acc_group) ==
    IF \E g \in dir : g.id = acc_group.id THEN dir
    ELSE dir \cup {Group(acc_group.id, acc_group.display_name, "Group", {}, {})}

(* One operation of a PATCH: "add" on a path replaces the list at that path
   by the values of the listed entries; an empty object carries no path and
   changes nothing *)
PatchOp(g, o) ==
    IF DOMAIN o = {} THEN g
    ELSE IF o.path = "entitlements"
        THEN [g EXCEPT !.entitlements = {v.value : v \in o.value}]
    ELSE IF o.path = "roles"
        THEN [g EXCEPT !.roles = {v.value : v \in o.value}]
    ELSE g

PatchRaises(dir, id) == ~(\E g \in dir : g.id = id)

PatchGroup(dir, id, request) ==
    {IF g.id = id
        THEN PatchOp(PatchOp(g, request.Operations[1]), request.Operations[2])
        ELSE g : g \in dir}

---------------------------------------------------------------------------
(* GroupManager: internal methods *)

(* _get_group: next(iter(list), None); the set of groups it may return *)
get_group(dir, name) ==
    IF ListByName(dir, name) = {} THEN {None} ELSE ListByName(dir, name)

(* _find_eligible_groups: the listing filtered by name, then by resource type *)
find_eligible_groups_any_type(dir) == {h \in dir : h.display_name \notin SYSTEM_GROUPS}

find_eligible_groups(dir) ==
    {g \in {h \in dir : h.display_name \notin SYSTEM_GROUPS} :
        g.resource_type = "WorkspaceGroup"}

(* _get_clean_group_info followed by the displayName substitution *)
new_group_payload_keeps_name(source_group, backup_group_name) ==
    [displayName |-> source_group.display_name,
     resource_type |-> source_group.resource_type,
     entitlements |-> source_group.entitlements,
     roles |-> source_group.roles]

new_group_payload(source_group, backup_group_name) ==
    [displayName |-> backup_group_name,
     resource_type |-> source_group.resource_type,
     entitlements |-> source_group.entitlements,
     roles |-> source_group.roles]

backup_name(source_group_name) == backup_group_prefix \o source_group_name

(* _get_or_create_backup_group: the lookup of the backup under its name *)
find_backup_never(dir, source_group_name) == {None}

find_backup(dir, source_group_name) == get_group(dir, backup_name(source_group_name))

(* _apply_roles_and_entitlements: the request it builds; every value of the
   source becomes one entry {"value": v} of the operation *)
entitlements_op(source) ==
    IF source.entitlements # {}
        THEN [op |-> "add", path |-> "entitlements",
              value |-> {[value |-> e] : e \in source.entitlements}]
        ELSE <<>>

roles_op_wrong_path(source) ==
    IF source.roles # {}
        THEN [op |-> "add", path |-> "entitlements",
              value |-> {[value |-> r] : r \in source.roles}]
        ELSE <<>>

roles_op(source) ==
    IF source.roles # {}
        THEN [op |-> "add", path |-> "roles",
              value |-> {[value |-> r] : r \in source.roles}]
        ELSE <<>>

patch_request_roles_first(source) ==
    [schemas |-> <<op_schema, op_schema>>,
     Operations |-> <<roles_op(source), entitlements_op(source)>>]

patch_request(source) ==
    [schemas |-> <<op_schema, op_schema>>,
     Operations |-> <<entitlements_op(source), roles_op(source)>>]

---------------------------------------------------------------------------
(* ThreadedExecution: the executables of a batch and their positions *)

Task(n, w, b, a) ==
    [pc |-> "start", name |-> n, ws_group |-> w, backup_group |-> b, acc_group |-> a,
     request |-> <<>>]

Terminal(t) == t.pc \in {"done", "failed"}

AllTerminal == \A k \in 1..Len(tasks) : Terminal(tasks[k])

SomeFailed == \E k \in 1..Len(tasks) : tasks[k].pc = "failed"

Entry(o, out, c) == [op |-> o, outcome |-> out, cands |-> c]

Call(kind, id, by, ok) == SetToBag({[kind |-> kind, id |-> id, by |-> by, ok |-> ok]})

(* The listing in the directory's order (by identifier) *)
RECURSIVE InIdOrder(_)
InIdOrder(S) ==
    IF S = {} THEN <<>>
    ELSE LET g == CHOOSE x \in S : \A y \in S : x.id <= y.id
         IN  <<g>> \o InIdOrder(S \ {g})

Names(groups) == [k \in 1..Len(groups) |-> groups[k].display_name]

---------------------------------------------------------------------------
(* Phase 1: prepare_groups_in_environment *)

(* the loop of assertions over config.selected *)
selects_system_group_first(sel) == Len(sel) > 0 /\ sel[1] \in SYSTEM_GROUPS

selects_system_group(sel) == \E k \in 1..Len(sel) : sel[k] \in SYSTEM_GROUPS

(* the name list phase 1 hands to _set_migration_groups *)
groups_names ==
    IF selected # <<>> THEN selected ELSE Names(InIdOrder(find_eligible_groups(ws)))

PrepareCall ==
    /\ op = "idle"
    /\ Len(hist) < MaxCalls
    /\ wsAtStart' = ws
    /\ calls' = EmptyBag
    /\ idx' = 0
    /\ cands' = groups_names
    /\ IF selected # <<>> /\ selects_system_group(selected)
          THEN /\ op' = "idle"
               /\ tasks' = <<>>
               /\ hist' = Append(hist, Entry("prepare", "raised", groups_names))
          ELSE /\ op' = "prepare"
               /\ tasks' = [k \in 1..Len(groups_names) |->
                               Task(groups_names[k], None, None, None)]
               /\ hist' = hist
    /\ UNCHANGED <<ws, acct, nextId, selected, registry, faults, wsAtEnd>>

(* get_group_info: the workspace group and the account group of the name *)
GetGroupInfoUnchecked(i) ==
    /\ op = "prepare"
    /\ i \in 1..Len(tasks)
    /\ tasks[i].pc = "start"
    /\ \E w \in get_group(ws, tasks[i].name), a \in get_group(acct, tasks[i].name) :
          tasks' = [tasks EXCEPT ![i] =
                       [@ EXCEPT !.pc = "backup", !.ws_group = w, !.acc_group = a]]
    /\ UNCHANGED <<ws, acct, nextId, selected, registry, op, cands, idx,
                   faults, calls, hist, wsAtStart, wsAtEnd>>

GetGroupInfo(i) ==
    /\ op = "prepare"
    /\ i \in 1..Len(tasks)
    /\ tasks[i].pc = "start"
    /\ \E w \in get_group(ws, tasks[i].name), a \in get_group(acct, tasks[i].name) :
          tasks' = [tasks EXCEPT ![i] =
                       IF w = None \/ a = None
                          THEN [@ EXCEPT !.pc = "failed"]
                          ELSE [@ EXCEPT !.pc = "backup", !.ws_group = w, !.acc_group = a]]
    /\ UNCHANGED <<ws, acct, nextId, selected, registry, op, cands, idx,
                   faults, calls, hist, wsAtStart, wsAtEnd>>

(* _get_or_create_backup_group: the lookup of the backup by name *)
GetBackup(i) ==
    /\ op = "prepare"
    /\ i \in 1..Len(tasks)
    /\ tasks[i].pc = "backup"
    /\ \E b \in find_backup(ws, tasks[i].name) :
          tasks' = [tasks EXCEPT ![i] =
                       IF b = None
                          THEN [@ EXCEPT !.pc = "create"]
                          ELSE [@ EXCEPT !.pc = "patch", !.backup_group = b]]
    /\ UNCHANGED <<ws, acct, nextId, selected, registry, op, cands, idx,
                   faults, calls, hist, wsAtStart, wsAtEnd>>

(* _get_or_create_backup_group: the creation of the backup *)
CreateBackup(i) ==
    /\ op = "prepare"
    /\ i \in 1..Len(tasks)
    /\ tasks[i].pc = "create"
    /\ LET payload == new_group_payload(tasks[i].ws_group, backup_name(tasks[i].name))
           created == Group(nextId, payload.displayName, "WorkspaceGroup",
                            payload.entitlements, payload.roles)
       IN  /\ ws' = CreateGroup(ws, nextId, payload)
           /\ tasks' = [tasks EXCEPT ![i] = [@ EXCEPT !.pc = "patch", !.backup_group = created]]
           /\ calls' = calls (+) Call("create", nextId, i, TRUE)
    /\ nextId' = nextId + 1
    /\ UNCHANGED <<acct, selected, registry, op, cands, idx,
                   faults, hist, wsAtStart, wsAtEnd>>

(* the source and the destination of the worker's PATCH *)
PatchSourceOriginal(t) == t.ws_group

PatchSource(t) == IF op = "prepare" THEN t.ws_group ELSE t.backup_group

PatchDest(t) == IF op = "prepare" THEN t.backup_group ELSE t.acc_group

(* _apply_roles_and_entitlements, in phase 1 and in phase 2 *)
ApplyRolesAndEntitlements(i) ==
    /\ op \in {"prepare", "replace"}
    /\ i \in 1..Len(tasks)
    /\ tasks[i].pc = "patch"
    /\ LET source == PatchSource(tasks[i])
           destination == PatchDest(tasks[i])
       IN  /\ calls' = calls (+) Call("patch", destination.id, i,
                                       ~PatchRaises(ws, destination.id))
           /\ IF PatchRaises(ws, destination.id)
                 THEN /\ ws' = ws
                      /\ tasks' = [tasks EXCEPT ![i] =
                                      [@ EXCEPT !.pc = "failed",
                                                !.request = patch_request(source)]]
                 ELSE /\ ws' = PatchGroup(ws, destination.id, patch_request(source))
                      /\ tasks' = [tasks EXCEPT ![i] =
                                      [@ EXCEPT !.pc = "done",
                                                !.request = patch_request(source)]]
    /\ UNCHANGED <<acct, nextId, selected, registry, op, cands, idx,
                   faults, hist, wsAtStart, wsAtEnd>>

(* _set_migration_groups: the batch has ended; the Registry is assigned *)
PrepareReturnEarly ==
    /\ op = "prepare"
    /\ tasks = <<>> \/ \E k \in 1..Len(tasks) : Terminal(tasks[k])
    /\ op' = "idle"
    /\ tasks' = <<>>
    /\ IF SomeFailed
          THEN /\ registry' = registry
               /\ wsAtEnd' = wsAtEnd
               /\ hist' = Append(hist, Entry("prepare", "raised", cands))
          ELSE /\ registry' = [k \in 1..Len(tasks) |->
                                  MigrationGroupInfo(tasks[k].ws_group,
                                                     tasks[k].backup_group,
                                                     tasks[k].acc_group)]
               /\ wsAtEnd' = ws
               /\ hist' = Append(hist, Entry("prepare", "ok", cands))
    /\ UNCHANGED <<ws, acct, nextId, selected, cands, idx,
                   faults, calls, wsAtStart>>

PrepareReturn ==
    /\ op = "prepare"
    /\ AllTerminal
    /\ op' = "idle"
    /\ tasks' = <<>>
    /\ IF SomeFailed
          THEN /\ registry' = registry
               /\ wsAtEnd' = wsAtEnd
               /\ hist' = Append(hist, Entry("prepare", "raised", cands))
          ELSE /\ registry' = [k \in 1..Len(tasks) |->
                                  MigrationGroupInfo(tasks[k].ws_group,
                                                     tasks[k].backup_group,
                                                     tasks[k].acc_group)]
               /\ wsAtEnd' = ws
               /\ hist' = Append(hist, Entry("prepare", "ok", cands))
    /\ UNCHANGED <<ws, acct, nextId, selected, cands, idx,
                   faults, calls, wsAtStart>>

---------------------------------------------------------------------------
(* Phase 2: replace_workspace_groups_with_account_groups *)

(* migration_groups_provider: the property's assertion *)
registry_loaded_unchecked == TRUE

registry_loaded == Len(registry) > 0

ReplaceCall ==
    /\ op = "idle"
    /\ Len(hist) < MaxCalls
    /\ calls' = EmptyBag
    /\ idx' = 0
    /\ cands' = <<>>
    /\ IF registry_loaded
          THEN /\ op' = "replace"
               /\ tasks' = [k \in 1..Len(registry) |->
                               Task(registry[k].workspace.display_name,
                                    registry[k].workspace,
                                    registry[k].backup,
                                    registry[k].account)]
               /\ hist' = hist
          ELSE /\ op' = "idle"
               /\ tasks' = <<>>
               /\ hist' = Append(hist, Entry("replace", "raised", <<>>))
    /\ UNCHANGED <<ws, acct, nextId, selected, registry, faults, wsAtStart, wsAtEnd>>

(* _replace_group: whether the name still resolves at workspace scope *)
workspace_group_exists_never(t) == {FALSE}

workspace_group_exists(t) ==
    {g # None : g \in get_group(ws, t.ws_group.display_name)}

CheckWorkspaceGroup(i) ==
    /\ op = "replace"
    /\ i \in 1..Len(tasks)
    /\ tasks[i].pc = "start"
    /\ \E found \in workspace_group_exists(tasks[i]) :
          tasks' = [tasks EXCEPT ![i] =
                       [@ EXCEPT !.pc = IF found THEN "delete" ELSE "reflect"]]
    /\ UNCHANGED <<ws, acct, nextId, selected, registry, op, cands, idx,
                   faults, calls, hist, wsAtStart, wsAtEnd>>

(* _replace_group: groups.delete(ws_group.id) *)
DeleteWorkspaceGroup(i) ==
    /\ op = "replace"
    /\ i \in 1..Len(tasks)
    /\ tasks[i].pc = "delete"
    /\ LET id == tasks[i].ws_group.id
       IN  /\ calls' = calls (+) Call("delete", id, i, ~DeleteRaises(ws, id))
           /\ IF DeleteRaises(ws, id)
                 THEN /\ ws' = ws
                      /\ tasks' = [tasks EXCEPT ![i] = [@ EXCEPT !.pc = "failed"]]
                 ELSE /\ ws' = DeleteGroup(ws, id)
                      /\ tasks' = [tasks EXCEPT ![i] = [@ EXCEPT !.pc = "reflect"]]
    /\ UNCHANGED <<acct, nextId, selected, registry, op, cands, idx,
                   faults, hist, wsAtStart, wsAtEnd>>

(* _replace_group: reflect_account_group_to_workspace(acc_group) *)
ReflectAccountGroup(i) ==
    /\ op = "replace"
    /\ i \in 1..Len(tasks)
    /\ tasks[i].pc = "reflect"
    /\ ws' = ReflectGroup(ws, tasks[i].acc_group)
    /\ calls' = calls (+) Call("reflect", tasks[i].acc_group.id, i, TRUE)
    /\ tasks' = [tasks EXCEPT ![i] = [@ EXCEPT !.pc = "patch"]]
    /\ UNCHANGED <<acct, nextId, selected, registry, op, cands, idx,
                   faults, hist, wsAtStart, wsAtEnd>>

ReplaceReturnClears ==
    /\ op = "replace"
    /\ AllTerminal
    /\ op' = "idle"
    /\ tasks' = <<>>
    /\ registry' = <<>>
    /\ hist' = Append(hist, Entry("replace", IF SomeFailed THEN "raised" ELSE "ok",
                                  cands))
    /\ UNCHANGED <<ws, acct, nextId, selected, cands, idx,
                   faults, calls, wsAtStart, wsAtEnd>>

ReplaceReturn ==
    /\ op = "replace"
    /\ AllTerminal
    /\ op' = "idle"
    /\ tasks' = <<>>
    /\ hist' = Append(hist, Entry("replace", IF SomeFailed THEN "raised" ELSE "ok",
                                  cands))
    /\ UNCHANGED <<ws, acct, nextId, selected, registry, cands, idx,
                   faults, calls, wsAtStart, wsAtEnd>>

---------------------------------------------------------------------------
(* Phase 3: delete_backup_groups *)

CleanupCall ==
    /\ op = "idle"
    /\ Len(hist) < MaxCalls
    /\ calls' = EmptyBag
    /\ cands' = <<>>
    /\ tasks' = <<>>
    /\ IF registry_loaded
          THEN /\ op' = "cleanup"
               /\ idx' = 1
               /\ hist' = hist
          ELSE /\ op' = "idle"
               /\ idx' = 0
               /\ hist' = Append(hist, Entry("cleanup", "raised", <<>>))
    /\ UNCHANGED <<ws, acct, nextId, selected, registry, faults, wsAtStart, wsAtEnd>>

(* one iteration of the loop: the delete, and the except clause around it *)
DeleteBackupGroupUncaught ==
    /\ op = "cleanup"
    /\ idx \in 1..Len(registry)
    /\ LET id == registry[idx].backup.id
       IN  /\ calls' = calls (+) Call("delete", id, idx, ~DeleteRaises(ws, id))
           /\ IF DeleteRaises(ws, id)
                 THEN /\ ws' = ws
                      /\ op' = "idle"
                      /\ idx' = 0
                      /\ hist' = Append(hist, Entry("cleanup", "raised", cands))
                 ELSE /\ ws' = DeleteGroup(ws, id)
                      /\ op' = op
                      /\ idx' = idx + 1
                      /\ hist' = hist
    /\ UNCHANGED <<acct, nextId, selected, registry, cands, tasks,
                   faults, wsAtStart, wsAtEnd>>

DeleteBackupGroup ==
    /\ op = "cleanup"
    /\ idx \in 1..Len(registry)
    /\ LET id == registry[idx].backup.id
       IN  /\ calls' = calls (+) Call("delete", id, idx, ~DeleteRaises(ws, id))
           /\ ws' = IF DeleteRaises(ws, id) THEN ws ELSE DeleteGroup(ws, id)
    /\ idx' = idx + 1
    /\ UNCHANGED <<acct, nextId, selected, registry, op, cands, tasks,
                   faults, hist, wsAtStart, wsAtEnd>>

CleanupReturn ==
    /\ op = "cleanup"
    /\ idx > Len(registry)
    /\ op' = "idle"
    /\ idx' = 0
    /\ hist' = Append(hist, Entry("cleanup", "ok", cands))
    /\ UNCHANGED <<ws, acct, nextId, selected, registry, cands, tasks,
                   faults, calls, wsAtStart, wsAtEnd>>

---------------------------------------------------------------------------
(* The environment: failing gateway calls, and the end of the process *)

(* the mutating gateway call a worker is about to make fails (a failing lookup
   leaves the same directory and the same failed worker) *)
GatewayFault(i) ==
    /\ op \in {"prepare", "replace"}
    /\ i \in 1..Len(tasks)
    /\ tasks[i].pc \in {"create", "patch", "delete", "reflect"}
    /\ faults < MaxFaults
    /\ faults' = faults + 1
    /\ tasks' = [tasks EXCEPT ![i] = [@ EXCEPT !.pc = "failed"]]
    /\ UNCHANGED <<ws, acct, nextId, selected, registry, op, cands, idx,
                   calls, hist, wsAtStart, wsAtEnd>>

(* the delete of the cleanup loop fails; the except clause catches it *)
DeleteBackupFault ==
    /\ op = "cleanup"
    /\ idx \in 1..Len(registry)
    /\ faults < MaxFaults
    /\ faults' = faults + 1
    /\ calls' = calls (+) Call("delete", registry[idx].backup.id, idx, FALSE)
    /\ idx' = idx + 1
    /\ UNCHANGED <<ws, acct, nextId, selected, registry, op, cands, tasks,
                   hist, wsAtStart, wsAtEnd>>

(* the process ends, at any point, and a new GroupManager is constructed *)
Restart ==
    /\ Len(hist) < MaxCalls
    /\ op # "idle" \/ hist # <<>>
    /\ hist' = Append(hist, Entry("restart", op, <<>>))
    /\ registry' = <<>>
    /\ op' = "idle"
    /\ tasks' = <<>>
    /\ idx' = 0
    /\ cands' = <<>>
    /\ calls' = EmptyBag
    /\ wsAtStart' = {}
    /\ wsAtEnd' = {}
    /\ UNCHANGED <<ws, acct, nextId, selected, faults>>

---------------------------------------------------------------------------
(* Initial states: any content of the directory, any configuration *)

E1 == "allow-cluster-create"
E2 == "workspace-access"
R1 == "arn:role-1"
R2 == "arn:role-2"

SystemUsers == Group(1, "users", "WorkspaceGroup", {E2}, {})

(* the group "a": absent, without values, or with values *)
GroupA == {{}, {Group(2, "a", "WorkspaceGroup", {}, {})},
               {Group(2, "a", "WorkspaceGroup", {E1, E2}, {R1})}}

GroupB == Group(3, "b", "WorkspaceGroup", {E2}, {})

(* a group that carries the backup name of "a" before the run: none, one
   without values, or one whose values differ from those of "a" *)
GroupBackupA == {{}, {Group(4, "db-temp-a", "WorkspaceGroup", {}, {})},
                     {Group(4, "db-temp-a", "WorkspaceGroup", {E1}, {R2})}}

AccountA == Group(12, "a", "Group", {}, {})
AccountB == Group(13, "b", "Group", {}, {})
AccountBackupA == Group(14, "db-temp-a", "Group", {}, {})

SelectedLists == {<<>>, <<"a">>, <<"a", "b">>, <<"a", "users">>, <<"users", "a">>,
                  <<"a", "a">>, <<"a", "db-temp-a">>}

GroupAWithValues == Group(2, "a", "WorkspaceGroup", {E1, E2}, {R1})

(* a directory in which auto-discovery finds no eligible group *)
OnlySystemGroups == {[ws |-> {SystemUsers}, acct |-> {AccountA}]}

(* The directories a configuration is run against: every combination for the
   single candidate; for the longer lists and for auto-discovery the
   directories in which "a" has values and its account group exists; for
   auto-discovery also the directory without any eligible group, and for the
   list of two names also the directory in which "a" has no account group *)
Directories(sel) ==
    IF Len(sel) = 1
    THEN {[ws |-> {SystemUsers} \cup x \cup y, acct |-> {AccountB} \cup z] :
             x \in GroupA, y \in GroupBackupA, z \in {{}, {AccountA}}}
    ELSE IF sel \in {<<>>, <<"a", "db-temp-a">>}
    THEN {[ws |-> {SystemUsers, GroupAWithValues} \cup y, acct |-> {AccountA} \cup z] :
             y \in GroupBackupA \ {{Group(4, "db-temp-a", "WorkspaceGroup", {}, {})}},
             z \in {{}, {AccountBackupA}}}
         \cup (IF sel = <<>> THEN OnlySystemGroups ELSE {})
    ELSE {[ws |-> {SystemUsers, GroupAWithValues, GroupB} \cup y,
           acct |-> {AccountA, AccountB}] : y \in GroupBackupA}
         \cup (IF sel = <<"a", "b">>
                  THEN {[ws |-> {SystemUsers, GroupAWithValues, GroupB},
                         acct |-> {AccountB}]}
                  ELSE {})

Init ==
    /\ selected \in SelectedLists
    /\ \E d \in Directories(selected) : ws = d.ws /\ acct = d.acct
    /\ nextId = 21
    /\ registry = <<>>
    /\ op = "idle"
    /\ cands = <<>>
    /\ tasks = <<>>
    /\ idx = 0
    /\ faults = 0
    /\ calls = EmptyBag
    /\ hist = <<>>
    /\ wsAtStart = {}
    /\ wsAtEnd = {}

Next ==
    \/ PrepareCall
    \/ \E i \in 1..Len(tasks) : GetGroupInfo(i)
    \/ \E i \in 1..Len(tasks) : GetBackup(i)
    \/ \E i \in 1..Len(tasks) : CreateBackup(i)
    \/ \E i \in 1..Len(tasks) : ApplyRolesAndEntitlements(i)
    \/ PrepareReturn
    \/ ReplaceCall
    \/ \E i \in 1..Len(tasks) : CheckWorkspaceGroup(i)
    \/ \E i \in 1..Len(tasks) : DeleteWorkspaceGroup(i)
    \/ \E i \in 1..Len(tasks) : ReflectAccountGroup(i)
    \/ ReplaceReturn
    \/ CleanupCall
    \/ DeleteBackupGroup
    \/ CleanupReturn
    \/ \E i \in 1..Len(tasks) : GatewayFault(i)
    \/ DeleteBackupFault
    \/ Restart

Spec == Init /\ [][Next]_vars

---------------------------------------------------------------------------
(* Properties *)

Last == hist[Len(hist)]

Ended(o) == op = "idle" /\ hist # <<>> /\ Last.op = o

Ids(dir) == {g.id : g \in dir}

Distinct(seq) == \A i, j \in DOMAIN seq : seq[i] = seq[j] => i = j

(* C1: a configured list that names a system group at any position makes phase 1
   raise before any worker starts: no create, delete or patch call is made and
   the directory is as it was when phase 1 was called. *)
C1_SystemGroupAborts ==
    (\E k \in DOMAIN selected : selected[k] \in {"users", "admins", "account users"}) =>
        /\ op # "prepare"
        /\ tasks = <<>>
        /\ \A k \in DOMAIN hist : hist[k].op = "prepare" => hist[k].outcome = "raised"
        /\ Ended("prepare") => (calls = EmptyBag /\ ws = wsAtStart)

C1_Witness ==
    /\ Ended("prepare")
    /\ Last.outcome = "raised"
    /\ Len(selected) = 2
    /\ selected[1] \notin SYSTEM_GROUPS
    /\ selected[2] \in SYSTEM_GROUPS

(* phase 1 and then phase 2 have succeeded, with no gateway failure *)
CutOver ==
    /\ op = "idle"
    /\ faults = 0
    /\ Len(hist) = 2
    /\ hist[1].op = "prepare" /\ hist[1].outcome = "ok"
    /\ hist[2].op = "replace" /\ hist[2].outcome = "ok"

(* C2: once phase 1 and phase 2 have both succeeded, every migrated name resolves
   at workspace scope to the account group, which carries exactly the
   entitlements and roles the workspace group had before phase 1 (stated for the
   workspace groups that had values in both categories). *)
C2_CutoverPreservesValues ==
    CutOver =>
        \A k \in DOMAIN registry :
            LET name == registry[k].workspace.display_name
            IN  /\ Cardinality(ListByName(ws, name)) = 1
                /\ \A g \in ListByName(ws, name) :
                      /\ g.id = registry[k].account.id
                      /\ \A w \in ListByName(wsAtStart, name) :
                            (w.entitlements # {} /\ w.roles # {}) =>
                                /\ g.entitlements = w.entitlements
                                /\ g.roles = w.roles

(* A PATCH of worker i has just been applied *)
Patched(i) ==
    /\ i \in DOMAIN tasks
    /\ i \in DOMAIN tasks'
    /\ tasks[i].pc = "patch"
    /\ tasks'[i].pc = "done"

OnlyRestarts(from, to) ==
    \A j \in from..to : hist[j].op = "restart" /\ hist[j].outcome \in {"idle", "prepare"}

SecondRunAfter(m) ==
    /\ hist[m].op = "prepare"
    /\ hist[m].outcome = "ok"
    /\ \/ /\ op = "prepare"
          /\ cands = hist[m].cands
          /\ OnlyRestarts(m + 1, Len(hist))
       \/ /\ Ended("prepare")
          /\ m < Len(hist)
          /\ Last.cands = hist[m].cands
          /\ OnlyRestarts(m + 1, Len(hist) - 1)

(* C4: a phase 1 that follows a successful phase 1 over the same candidate list,
   with no phase 2 or 3 in between, creates no group; and for a list of distinct
   names exactly one group carries each candidate's backup name. *)
C4_SecondRunReusesBackup ==
    \A m \in DOMAIN hist :
        SecondRunAfter(m) =>
            /\ \A c \in BagToSet(calls) : c.kind # "create"
            /\ Distinct(hist[m].cands) =>
                  \A k \in DOMAIN hist[m].cands :
                      Cardinality(ListByName(ws, backup_name(hist[m].cands[k]))) = 1

(* the second run has ended: it found the backup the first run created *)
C4_Witness ==
    /\ Len(hist) = 2
    /\ SecondRunAfter(1)
    /\ Last.outcome = "ok"
    /\ Len(registry) = 2
    /\ \E g \in wsAtStart : g.display_name = "db-temp-b"
    /\ \E c \in BagToSet(calls) : c.kind = "patch" /\ c.ok

(* C5: after a successful phase 1 the Registry holds exactly one record per
   distinct candidate name, and every record has its three references. *)
C5_OneRecordPerName ==
    (Ended("prepare") /\ Last.outcome = "ok") =>
        /\ \A i, j \in DOMAIN registry :
              registry[i].workspace.display_name = registry[j].workspace.display_name
                 => i = j
        /\ {registry[k].workspace.display_name : k \in DOMAIN registry}
              = {Last.cands[k] : k \in DOMAIN Last.cands}
        /\ \A k \in DOMAIN registry :
              /\ registry[k].workspace # None
              /\ registry[k].backup # None
              /\ registry[k].account # None

(* C6: when a run whose phase 1 had succeeded is interrupted during phase 2, the
   phase 1 of the run that follows completes without error (no gateway call
   fails in either run). *)
C6_RerunCompletes ==
    (/\ faults = 0
     /\ Len(hist) = 3
     /\ op = "idle"
     /\ hist[1].op = "prepare" /\ hist[1].outcome = "ok"
     /\ hist[2].op = "restart" /\ hist[2].outcome = "replace"
     /\ hist[3].op = "prepare") =>
        hist[3].outcome = "ok"

(* C7: in a phase 2 that follows a successful phase 2 over the same Registry the
   workspace group of every record is gone; no worker issues a delete, and no
   worker fails (no gateway call fails for a transient reason). *)
C7_DeletedGroupIsSkipped ==
    (/\ faults = 0
     /\ op = "replace"
     /\ hist # <<>>
     /\ Last.op = "replace" /\ Last.outcome = "ok") =>
        /\ \A c \in BagToSet(calls) : c.kind # "delete"
        /\ \A i \in DOMAIN tasks : tasks[i].pc # "failed"

(* the number of delete calls the cleanup loop has made for record k *)
DeleteAttempts(k) ==
    CopiesIn([kind |-> "delete", id |-> registry[k].backup.id, by |-> k, ok |-> TRUE], calls)
    + CopiesIn([kind |-> "delete", id |-> registry[k].backup.id, by |-> k, ok |-> FALSE], calls)

(* C8: a cleanup over a non-empty Registry returns normally, has attempted the
   delete of every record's backup exactly once, whichever of them failed, and
   no backup whose delete did not fail is left in the directory. *)
C8_CleanupResilient ==
    (Ended("cleanup") /\ registry # <<>>) =>
        /\ Last.outcome = "ok"
        /\ BagCardinality(calls) = Len(registry)
        /\ \A k \in DOMAIN registry :
              /\ DeleteAttempts(k) = 1
              /\ BagIn([kind |-> "delete", id |-> registry[k].backup.id,
                        by |-> k, ok |-> TRUE], calls)
                    => registry[k].backup.id \notin Ids(ws)

(* a cleanup of two records in which the first delete failed and the second
   did not *)
C8_Witness ==
    /\ Ended("cleanup")
    /\ Last.outcome = "ok"
    /\ Len(registry) = 2
    /\ BagIn([kind |-> "delete", id |-> registry[1].backup.id, by |-> 1, ok |-> FALSE], calls)
    /\ BagIn([kind |-> "delete", id |-> registry[2].backup.id, by |-> 2, ok |-> TRUE], calls)
    /\ registry[2].backup.id \notin Ids(ws)

(* phase 1 has succeeded and only phase 2 has been called since *)
BetweenPhase1And3 ==
    /\ op \in {"idle", "replace"}
    /\ \E m \in DOMAIN hist :
          /\ hist[m].op = "prepare"
          /\ hist[m].outcome = "ok"
          /\ \A j \in (m + 1)..Len(hist) : hist[j].op = "replace"

(* C9: between the end of phase 1 and the start of phase 3, whatever fails in
   phase 2, every record's backup group is in the directory as it was at the
   end of phase 1. *)
C9_BackupIsRecoveryAnchor ==
    BetweenPhase1And3 =>
        \A k \in DOMAIN registry :
            \E g \in ws : g.id = registry[k].backup.id /\ g \in wsAtEnd

(* C10: the cleanup loop deletes a backup only after a phase 2 over the same
   Registry has succeeded. *)
C10_DeleteOnlyAfterCutover ==
    (/\ op = "cleanup"
     /\ \E c \in BagToSet(calls) : c.kind = "delete" /\ c.ok) =>
        \E m \in DOMAIN hist :
            /\ hist[m].op = "replace"
            /\ hist[m].outcome = "ok"
            /\ \A j \in (m + 1)..Len(hist) : hist[j].op \notin {"prepare", "restart"}

(* C11: replace_workspace_groups_with_account_groups and delete_backup_groups
   never start their work over an empty Registry: called with an empty Registry
   (phase 1 never ran, or ran over no candidate and succeeded) each raises at
   once, with no worker started and no gateway call made. *)
C11_EmptyRegistryFailsFast ==
    /\ op \in {"replace", "cleanup"} => registry # <<>>
    /\ ((Ended("replace") \/ Ended("cleanup")) /\ registry = <<>>) =>
          /\ Last.outcome = "raised"
          /\ calls = EmptyBag
          /\ tasks = <<>>
          /\ idx = 0

(* phase 1 over no candidate has succeeded, and the phase called after it has
   raised *)
C11_Witness ==
    /\ Len(hist) = 2
    /\ hist[1].op = "prepare" /\ hist[1].outcome = "ok" /\ hist[1].cands = <<>>
    /\ Ended("cleanup")
    /\ Last.outcome = "raised"
    /\ registry = <<>>

(* worker i of phase 1 has made its lookups, and its name has no group at
   workspace scope or no account group *)
MissingEntity(i) ==
    /\ op = "prepare"
    /\ tasks[i].pc # "start"
    /\ \/ ListByName(ws, tasks[i].name) = {}
       \/ ListByName(acct, tasks[i].name) = {}

(* C12: a candidate without a workspace group or without an account group makes
   its worker fail at the lookup: no create and no patch is ever made for that
   candidate, phase 1 ends by raising, and the Registry keeps the content it
   had when phase 1 was called. *)
C12_MissingEntityFailsPhase1 ==
    [][\A i \in DOMAIN tasks :
          MissingEntity(i) =>
             /\ tasks[i].pc = "failed"
             /\ \A c \in BagToSet(calls) \cup BagToSet(calls') : c.by # i
             /\ (hist' # hist /\ hist'[Len(hist')].op = "prepare") =>
                   /\ hist'[Len(hist')].outcome = "raised"
                   /\ registry' = registry]_vars

(* a phase 1 over two names has raised because "a" is gone from the workspace;
   the backup of "b" was patched all the same, and the Registry still holds the
   two records of the earlier phase 1 *)
C12_Witness ==
    /\ Len(hist) = 3
    /\ selected = <<"a", "b">>
    /\ hist[1].op = "prepare" /\ hist[1].outcome = "ok"
    /\ Ended("prepare")
    /\ Last.outcome = "raised"
    /\ Len(registry) = 2
    /\ ListByName(ws, "a") = {}
    /\ \E c \in BagToSet(calls) : c.kind = "patch" /\ c.by = 2 /\ c.ok

(* the step is the end of the process *)
RestartStep == hist' # hist /\ hist'[Len(hist')].op = "restart"

(* C13: a phase that fans out returns only when every one of its workers has
   finished; the next phase starts only when no worker is left; and the
   Registry is assigned only when every worker of phase 1 has finished. *)
C13_PhaseBarrier ==
    [][~RestartStep =>
          /\ (op \in {"prepare", "replace"} /\ op' # op) =>
                \A i \in DOMAIN tasks : tasks[i].pc \in {"done", "failed"}
          /\ (op' \in {"prepare", "replace", "cleanup"} /\ op' # op) =>
                (op = "idle" /\ tasks = <<>>)
          /\ (op = "prepare" /\ registry' # registry) =>
                \A i \in DOMAIN tasks : tasks[i].pc = "done"]_vars

(* one run of the three phases in order over two records, each phase
   succeeding *)
C13_Witness ==
    /\ Len(hist) = 3
    /\ hist[1].op = "prepare" /\ hist[1].outcome = "ok"
    /\ hist[2].op = "replace" /\ hist[2].outcome = "ok"
    /\ Ended("cleanup") /\ Last.outcome = "ok"
    /\ Len(registry) = 2
    /\ registry[1].workspace.display_name # registry[2].workspace.display_name

(* the groups of a directory that are workspace-local and not system groups *)
WorkspaceLocalNonSystem(dir) ==
    {g \in dir : /\ g.resource_type = "WorkspaceGroup"
                 /\ g.display_name \notin {"users", "admins", "account users"}}

(* C14: with no list configured, the candidates of phase 1 are exactly the
   display names of the groups listed at workspace scope that are workspace-local
   and not system groups, one candidate per such group; no candidate is a system
   group or a group that came from the account. *)
C14_AutoDiscovery ==
    ((op = "prepare" \/ Ended("prepare")) /\ selected = <<>>) =>
        /\ {cands[k] : k \in DOMAIN cands}
              = {g.display_name : g \in WorkspaceLocalNonSystem(wsAtStart)}
        /\ Len(cands) = Cardinality(WorkspaceLocalNonSystem(wsAtStart))
        /\ \A k \in DOMAIN cands :
              /\ cands[k] \notin {"users", "admins", "account users"}
              /\ \A g \in wsAtStart :
                    g.display_name = cands[k] => g.resource_type # "Group"

(* auto-discovery over a workspace that lists a system group, a reflected
   account group and a workspace-local group: only the last is a candidate *)
C14_Witness ==
    /\ op = "prepare"
    /\ selected = <<>>
    /\ cands # <<>>
    /\ \E g \in wsAtStart : g.resource_type = "Group"
    /\ \E g \in wsAtStart : g.display_name \in SYSTEM_GROUPS

(* C15: the Registry changes only when phase 1 assigns it (or when the process
   ends): no step of cutover or of cleanup, succeeding or failing, adds,
   removes, reorders or changes a record. *)
C15_RegistryWriteOnce ==
    [][registry' # registry => (op = "prepare" \/ RestartStep)]_vars

(* cutover has failed and cleanup has run: the Registry still holds the two
   records of phase 1, whose backups are gone from the directory *)
C15_Witness ==
    /\ Len(hist) = 3
    /\ hist[1].op = "prepare" /\ hist[1].outcome = "ok"
    /\ hist[2].op = "replace" /\ hist[2].outcome = "raised"
    /\ Ended("cleanup")
    /\ Len(registry) = 2
    /\ \A k \in DOMAIN registry : registry[k].backup.id \notin Ids(ws)

(* C16: in every record of the Registry the workspace group and the account
   group have the same display name, and the backup's display name is the
   backup prefix followed by that name. *)
C16_RecordNames ==
    \A k \in DOMAIN registry :
        /\ registry[k].workspace.display_name = registry[k].account.display_name
        /\ registry[k].backup.display_name
              = "db-temp-" \o registry[k].workspace.display_name

(* a Registry of two records, one whose backup existed before the run and one
   whose backup phase 1 created *)
C16_Witness ==
    /\ Len(registry) = 2
    /\ registry[1].backup \in wsAtStart
    /\ registry[2].backup.id \notin Ids(wsAtStart)
    /\ registry[1].workspace.display_name # registry[2].workspace.display_name

(* C17: after a successful phase 1 the backup group of every record holds, in
   the directory, exactly the entitlements and the roles of the record's
   workspace group, whether the backup was created or reused. *)
C17_BackupHoldsSourceValues ==
    (Ended("prepare") /\ Last.outcome = "ok") =>
        \A k \in DOMAIN registry :
            \E g \in ws :
                /\ g.id = registry[k].backup.id
                /\ g.entitlements = registry[k].workspace.entitlements
                /\ g.roles = registry[k].workspace.roles

(* the step adds a gateway call of the kind by worker i *)
Made(kind, i) ==
    \E c \in BagToSet(calls') :
        c.kind = kind /\ c.by = i /\ CopiesIn(c, calls') > CopiesIn(c, calls)

(* worker i has made a gateway call of the kind before the step *)
Had(kind, i) == \E c \in BagToSet(calls) : c.kind = kind /\ c.by = i

(* no delete of worker i has failed before the step *)
DeleteDidNotFail(i) ==
    \A c \in BagToSet(calls) : (c.kind = "delete" /\ c.by = i) => c.ok

(* C18: in cutover the worker of a record deletes the workspace group before it
   reflects the account group, and reflects before it patches; the patch goes to
   the account group and carries the values of the record's backup group; a
   worker whose delete or reflect failed makes no further call. *)
C18_CutoverOrder ==
    [][(op = "replace" /\ ~RestartStep) =>
          \A i \in DOMAIN tasks :
             /\ Made("delete", i) =>
                   /\ ~Had("delete", i) /\ ~Had("reflect", i) /\ ~Had("patch", i)
                   /\ \E c \in BagToSet(calls') :
                         c.kind = "delete" /\ c.by = i /\ c.id = registry[i].workspace.id
             /\ Made("reflect", i) =>
                   /\ ~Had("reflect", i) /\ ~Had("patch", i)
                   /\ DeleteDidNotFail(i)
                   /\ \E c \in BagToSet(calls') :
                         c.kind = "reflect" /\ c.by = i /\ c.id = registry[i].account.id
             /\ Made("patch", i) =>
                   /\ Had("reflect", i) /\ ~Had("patch", i)
                   /\ DeleteDidNotFail(i)
                   /\ \A c \in BagToSet(calls') :
                         (c.kind = "patch" /\ c.by = i) =>
                            /\ c.id = registry[i].account.id
                            /\ c.ok => ws' = PatchGroup(ws, registry[i].account.id,
                                                        patch_request(registry[i].backup))
             /\ tasks[i].pc = "failed" =>
                   ~(Made("delete", i) \/ Made("reflect", i) \/ Made("patch", i))]_vars

(* a worker of cutover has deleted, reflected and patched, for a record whose
   backup (as recorded) and workspace group hold different values *)
C18_Witness ==
    /\ op = "replace"
    /\ \E i \in DOMAIN tasks :
          /\ tasks[i].pc = "done"
          /\ BagIn([kind |-> "delete", id |-> registry[i].workspace.id,
                    by |-> i, ok |-> TRUE], calls)
          /\ BagIn([kind |-> "reflect", id |-> registry[i].account.id,
                    by |-> i, ok |-> TRUE], calls)
          /\ BagIn([kind |-> "patch", id |-> registry[i].account.id,
                    by |-> i, ok |-> TRUE], calls)
          /\ registry[i].backup.roles # registry[i].workspace.roles
          /\ registry[i].backup.roles # {}

(* the operation of a request for one category of values: an "add" that lists
   every value, or the empty object when there is none *)
IsOperationFor(o, path, values) ==
    IF values = {}
        THEN DOMAIN o = {}
        ELSE /\ DOMAIN o = {"op", "path", "value"}
             /\ o.op = "add"
             /\ o.path = path
             /\ o.value = {[value |-> v] : v \in values}

(* the number of PATCH calls worker i has sent to the identifier *)
PatchesSent(i, id) ==
    CopiesIn([kind |-> "patch", id |-> id, by |-> i, ok |-> TRUE], calls)
    + CopiesIn([kind |-> "patch", id |-> id, by |-> i, ok |-> FALSE], calls)

(* C19: the request of a propagation has two schema entries and two operations,
   the first for entitlements and the second for roles, each an "add" listing
   every value of the source or the empty object when the source has none; a
   worker that has propagated has sent exactly one PATCH, to the identifier of
   its destination. *)
C19_RequestShape ==
    \A i \in DOMAIN tasks :
        LET t == tasks[i]
            source == IF op = "prepare" THEN t.ws_group ELSE t.backup_group
            destination == IF op = "prepare" THEN t.backup_group ELSE t.acc_group
        IN  /\ t.pc = "done" => DOMAIN t.request # {}
            /\ DOMAIN t.request # {} =>
                  /\ DOMAIN t.request = {"schemas", "Operations"}
                  /\ t.request.schemas
                        = <<"urn:ietf:params:scim:api:messages:2.0:PatchOp",
                            "urn:ietf:params:scim:api:messages:2.0:PatchOp">>
                  /\ Len(t.request.Operations) = 2
                  /\ IsOperationFor(t.request.Operations[1], "entitlements",
                                    source.entitlements)
                  /\ IsOperationFor(t.request.Operations[2], "roles", source.roles)
                  /\ PatchesSent(i, destination.id) = 1
                  /\ \A c \in BagToSet(calls) :
                        (c.kind = "patch" /\ c.by = i) => c.id = destination.id

(* a worker has sent the request for a source that has one entitlement and no
   role: an "add" with one entry, then the empty object *)
C19_Witness ==
    \E i \in DOMAIN tasks :
        /\ tasks[i].pc = "done"
        /\ DOMAIN tasks[i].request.Operations[1] # {}
        /\ tasks[i].request.Operations[1].value = {[value |-> E2]}
        /\ DOMAIN tasks[i].request.Operations[2] = {}

(* C20: whatever the candidate list and the interleaving of the workers of
   phase 1, no two groups of the directory carry the backup name of the same
   candidate. *)
C20_OneBackupPerName ==
    \A k \in DOMAIN selected :
        Cardinality(ListByName(ws, "db-temp-" \o selected[k])) <= 1

(* the groups phase 1 has no business changing: the workspace groups of the
   candidates, and the groups that came from the account *)
OriginalOrAccountGroup(g) ==
    \/ \E k \in DOMAIN cands : g.display_name = cands[k]
    \/ g.resource_type = "Group"

(* C21: no step of phase 1 deletes a group, and none changes or removes the
   workspace group of a candidate or a group of the account: phase 1 only
   creates and patches backup groups. *)
C21_Phase1TouchesOnlyBackups ==
    [][(op = "prepare" /\ ~RestartStep) =>
          /\ ~(\E i \in DOMAIN tasks : Made("delete", i))
          /\ Ids(ws) \subseteq Ids(ws')
          /\ acct' = acct
          /\ \A g \in ws : OriginalOrAccountGroup(g) => g \in ws']_vars

(* the cutover of one record, run alone over a directory *)
CutoverOfRecord(dir, r) ==
    LET deleted == IF \E g \in dir : g.display_name = r.workspace.display_name
                      THEN {g \in dir : g.id # r.workspace.id}
                      ELSE dir
        reflected == ReflectGroup(deleted, r.account)
    IN  PatchGroup(reflected, r.account.id, patch_request(r.backup))

(* the cutover of the records k, k+1, ... of the Registry, one after another *)
RECURSIVE CutoverInOrder(_, _)
CutoverInOrder(dir, k) ==
    IF k > Len(registry) THEN dir
    ELSE CutoverInOrder(CutoverOfRecord(dir, registry[k]), k + 1)

(* phase 2 has succeeded right after a successful phase 1, with no gateway
   failure, over records of pairwise distinct names *)
CutoverCompleted ==
    /\ Ended("replace")
    /\ Last.outcome = "ok"
    /\ faults = 0
    /\ Len(hist) >= 2
    /\ hist[Len(hist) - 1].op = "prepare"
    /\ hist[Len(hist) - 1].outcome = "ok"
    /\ \A j, k \in DOMAIN registry :
          registry[j].workspace.display_name = registry[k].workspace.display_name
             => j = k

(* C22: for a Registry of pairwise distinct names, a cutover that completes
   without failure leaves the directory in the state that the cutover of the
   records one after another, in the order of the Registry, leaves it in,
   whatever the interleaving of the workers was. *)
C22_CutoverInterleavingIndependent ==
    CutoverCompleted => ws = CutoverInOrder(wsAtEnd, 1)

(* a cutover of two records has completed: both workspace groups are replaced
   by their account groups, which carry different values *)
C22_Witness ==
    /\ CutoverCompleted
    /\ Len(registry) = 2
    /\ \A k \in DOMAIN registry :
          /\ registry[k].workspace.id \notin Ids(ws)
          /\ registry[k].account.id \in Ids(ws)
    /\ \E g, h \in ws :
          /\ g.id = registry[1].account.id
          /\ h.id = registry[2].account.id
          /\ g.entitlements # h.entitlements

====
